---- MODULE Spec2Model ----
(***************************************************************************)
(* A model of pyosuio's beatmap loader, src/beatmap.py.                    *)
(*                                                                         *)
(* load() reads a file line by line, routes every line to the decoder of   *)
(* the active section, and then runs two post-processing passes:           *)
(* populate_timing_point_properties and populate_slider_properties.        *)
(*                                                                         *)
(* Python values are modelled as follows.                                  *)
(*   - A Decimal is an exact rational <<n, d>> in lowest terms, d > 0.     *)
(*     The inputs are chosen so that every quotient the code computes is   *)
(*     a finite decimal of fewer than 28 digits (see DecimalsExact), so    *)
(*     the context's rounding never applies.                               *)
(*   - A list is a reference (an index into heap) to its contents; the     *)
(*     objects a list owns (TimingPoint, HitObject, Curve) are records     *)
(*     stored in the list, and a reference to a TimingPoint is its index   *)
(*     in the beatmap's timing_points list.                                *)
(*   - A raised exception is its class name in err; None is "None".        *)
(*   - A line of the file is a record of its lexical form and its fields   *)
(*     (see the section "Lines").                                          *)
(***************************************************************************)
EXTENDS Integers, Sequences, FiniteSets, TLC

VARIABLES
    heap,       \* the contents of every list object, by reference
    pc,         \* where the caller / load() is
    lines,      \* the lines of the file load() has read so far
    section,    \* load's local: the active section
    beatmap,    \* load's local: the Beatmap under construction
    object_type,\* load's local: the last decoded HitObjectType
    cur,        \* populate_slider_properties' locals
    err,        \* the exception load() raised, or "None"
    returned,   \* what load() has returned to the caller, in call order
    calls       \* the number of calls of load() the caller has made

vars == <<heap, pc, lines, section, beatmap, object_type, cur, err, returned, calls>>

----------------------------------------------------------------------------
(* Bounds of the model.                                                    *)

MaxTimingPoints == 3
MaxHitObjects == 2
MaxTypeFlag == 255
MaxAnchors == 3
MaxLoads == 2
MaxColours == 2
MaxBitField == 15
MaxTextLines == 2

----------------------------------------------------------------------------
(* Integers and Decimals.                                                  *)

Abs(n) == IF n < 0 THEN -n ELSE n

RECURSIVE GCD(_, _)
GCD(a, b) == IF b = 0 THEN a ELSE GCD(b, a % b)

\* The rational n/d in lowest terms with a positive denominator (d # 0).
Rat(n, d) ==
    LET g == GCD(Abs(n), Abs(d))
        s == IF d < 0 THEN -1 ELSE 1
    IN  <<(s * n) \div g, (s * d) \div g>>

RInt(n) == <<n, 1>>
RMul(a, b) == Rat(a[1] * b[1], a[2] * b[2])
RAdd(a, b) == Rat(a[1] * b[2] + b[1] * a[2], a[2] * b[2])
RIsZero(a) == a[1] = 0
\* a / b for b # 0.
RDiv(a, b) == Rat(a[1] * b[2], a[2] * b[1])

\* x & y on non-negative integers.
RECURSIVE BitAnd(_, _)
BitAnd(x, y) ==
    IF x = 0 \/ y = 0 THEN 0
    ELSE (x % 2) * (y % 2) + 2 * BitAnd(x \div 2, y \div 2)

RECURSIVE Pow2(_)
Pow2(n) == IF n = 0 THEN 1 ELSE 2 * Pow2(n - 1)

\* x << n
ShiftLeft(x, n) == x * Pow2(n)

----------------------------------------------------------------------------
(* Strings.  The text of a key/value line is a sequence of tokens: a       *)
(* token is ":", ",", " " (one whitespace character) or a word, a run of   *)
(* characters that are none of these and of which the first is not "[".    *)

\* The positions of the token sep in text, and the k-th of them in
\* ascending order; the 0-th is 0 and the one after the last is Len(text) + 1.
Positions(text, sep) == {i \in 1..Len(text) : text[i] = sep}
Position(text, sep, k) ==
    IF k = 0 THEN 0
    ELSE IF k > Cardinality(Positions(text, sep)) THEN Len(text) + 1
    ELSE CHOOSE i \in Positions(text, sep) :
             Cardinality({j \in Positions(text, sep) : j < i}) = k - 1

\* text.split(sep): the list of the parts between the separators
Split(text, sep) ==
    [k \in 1..(Cardinality(Positions(text, sep)) + 1) |->
        SubSeq(text, Position(text, sep, k - 1) + 1, Position(text, sep, k) - 1)]

\* A split at every separator, where a split at the first one is meant.
SplitEvery(text, sep) == Split(text, sep)

\* text.split(sep, maxsplit=1)
SplitOnce(text, sep) ==
    IF Positions(text, sep) = {} THEN <<text>>
    ELSE <<SubSeq(text, 1, Position(text, sep, 1) - 1),
           SubSeq(text, Position(text, sep, 1) + 1, Len(text))>>

\* text.rstrip() and text.strip()
RStrip(text) ==
    LET inked == {i \in 1..Len(text) : text[i] # " "}
    IN  IF inked = {} THEN <<>>
        ELSE SubSeq(text, 1, CHOOSE i \in inked : \A j \in inked : j <= i)
Strip(text) ==
    LET inked == {i \in 1..Len(text) : text[i] # " "}
    IN  IF inked = {} THEN <<>>
        ELSE SubSeq(text, CHOOSE i \in inked : \A j \in inked : i <= j,
                          CHOOSE i \in inked : \A j \in inked : j <= i)

\* The words that are integer literals, and the words that are decimal
\* literals, with their values.  No other word of the files read here is one.
IntLiterals == {"-1", "0", "1", "2", "4", "255"}
IntValue(word) ==
    CASE word = "-1" -> -1
      [] word = "0" -> 0
      [] word = "1" -> 1
      [] word = "2" -> 2
      [] word = "4" -> 4
      [] word = "255" -> 255
DecimalLiterals == IntLiterals \cup {"0.7", "1.4"}
DecimalValue(word) ==
    CASE word \in IntLiterals -> RInt(IntValue(word))
      [] word = "0.7" -> Rat(7, 10)
      [] word = "1.4" -> Rat(14, 10)

\* int(text) and Decimal(text) succeed: both ignore whitespace around the
\* literal.  Otherwise int raises ValueError, Decimal InvalidOperation.
IsInt(text) == Len(Strip(text)) = 1 /\ Strip(text)[1] \in IntLiterals
IsDecimalLiteral(text) == Len(Strip(text)) = 1 /\ Strip(text)[1] \in DecimalLiterals
\* int(text) and Decimal(text), when they succeed
IntOf(text) == IntValue(Strip(text)[1])
Decimal(text) == DecimalValue(Strip(text)[1])

----------------------------------------------------------------------------
(* Lines.  A line of the file, after line.rstrip(), is one of              *)
(*   [form |-> "blank"]                       the empty line               *)
(*   [form |-> "header", name |-> s]          "[" s "]"                    *)
(*   [form |-> "text", text |-> tokens]       a line of tokens (see        *)
(*        Strings) with fewer than five fields between commas; its first   *)
(*        token is not a word that begins with "["                         *)
(*   [form |-> "tp", time, beat_length, uninherited, effects]              *)
(*        "time,beatLength,4,1,0,100,uninherited,effects"                  *)
(*   [form |-> "ho", x, y, time, type_flag, hit_sound, params]             *)
(*        "x,y,time,type,hitSound" followed by the object parameters:      *)
(*        none, the end time of a spinner, or the five parameters of a     *)
(*        slider ("T|x:y|...,slides,length,0|0,0:0|0:0").  No line         *)
(*        carries a trailing hit sample.                                   *)

NoParams == [shape |-> "none"]
SpinnerParams(end_time) == [shape |-> "spinner", end_time |-> end_time]
SliderParams(curve_type, curve_points, slides, length) ==
    [shape |-> "slider", curve_type |-> curve_type,
     curve_points |-> curve_points, slides |-> slides, length |-> length]

Blank == [form |-> "blank"]
Header(name) == [form |-> "header", name |-> name]
Text(text) == [form |-> "text", text |-> text]
\* The line "key:value", the value being a sequence of tokens.
KeyValue(key, value) == Text(<<key, ":">> \o value)
\* A timing point line whose effects field is 0, and a line with its
\* effects field replaced.
TimingPointLine(time, beat_length, uninherited) ==
    [form |-> "tp", time |-> time, beat_length |-> beat_length,
     uninherited |-> uninherited, effects |-> 0]
WithEffects(line, effects) == [line EXCEPT !.effects = effects]
HitObjectLine(x, y, time, type_flag, hit_sound, params) ==
    [form |-> "ho", x |-> x, y |-> y, time |-> time, type_flag |-> type_flag,
     hit_sound |-> hit_sound, params |-> params]

----------------------------------------------------------------------------
(* The record classes.  The events of Events, a TimingPoint's meter,       *)
(* sample_set, sample_index and volume, and a hit object's hit_sample,     *)
(* edge_sounds and edge_sets are left out.  A str is its sequence of       *)
(* tokens.                                                                 *)

\* A field declared with an Enum member as its default holds either that
\* member or the plain value the loader assigns.
Member(value) == [member |-> TRUE, value |-> value]
Plain(value) == [member |-> FALSE, value |-> value]

\* The list objects made once, when the classes are defined: the default
\* instances Editor(), Metadata(), Events() and Colors() that the Beatmap
\* class body builds each get their list from default_field([]).
BookmarksRef == 1
TagsRef == 2
EventsRef == 3
ColorsRef == 4

ClassHeap == << <<>>, <<>>, <<>>, <<>> >>

GeneralDefault ==
    [audio_filename |-> <<>>, audio_lead_in |-> 0, audio_hash |-> <<>>,
     preview_time |-> -1, countdown |-> Member(1),
     sample_set |-> Member(<<"Normal">>), stack_leniency |-> Rat(7, 10),
     mode |-> Member(0), letterbox_in_breaks |-> FALSE,
     story_fire_in_front |-> TRUE, use_skin_sprites |-> FALSE,
     always_show_playfield |-> FALSE,
     overlay_position |-> Member(<<"NoChange">>), skin_preference |-> <<>>,
     epilepsy_warning |-> FALSE, countdown_offset |-> 0,
     special_style |-> FALSE, widescreen_storyboard |-> FALSE,
     samples_match_playback_rate |-> FALSE]
EditorDefault ==
    [distance_spacing |-> RInt(1), beat_divisor |-> 4, grid_size |-> 64,
     timeline_zoom |-> RInt(0), bookmarks |-> BookmarksRef]
MetadataDefault ==
    [title |-> <<>>, title_unicode |-> <<>>, artist |-> <<>>,
     artist_unicode |-> <<>>, creator |-> <<>>, version |-> <<>>,
     source |-> <<>>, tags |-> TagsRef, beatmap_id |-> -1,
     beatmap_set_id |-> -1]
DifficultyDefault ==
    [hp_drain_rate |-> RInt(5), circle_size |-> RInt(5),
     overall_difficulty |-> RInt(5), approach_rate |-> RInt(5),
     slider_multiplier |-> RInt(5), slider_tick_rate |-> RInt(5)]
EventsDefault == [events |-> EventsRef]
\* None is the empty tuple: a parsed colour has at least one component.
ColorsDefault ==
    [colors |-> ColorsRef, slider_track_override |-> <<>>, slider_border |-> <<>>]

\* default_field(obj)'s factory, copy.copy(obj), on a record instance: a new
\* instance with the same field values, so a field that is a list still
\* refers to the list of obj.
default_field(obj) == obj

\* Beatmap(): the record fields are shallow copies of the class-level
\* default instances; timing_points and hit_objects are copies of [] and so
\* two new lists, allocated at the end of the heap h.
NewBeatmap(h) ==
    [general |-> default_field(GeneralDefault),
     editor |-> default_field(EditorDefault),
     metadata |-> default_field(MetadataDefault),
     difficulty |-> default_field(DifficultyDefault),
     events |-> default_field(EventsDefault),
     timing_points |-> Len(h) + 1,
     colors |-> default_field(ColorsDefault),
     hit_objects |-> Len(h) + 2]

Effects(kiai_time, bar_line) == [kiai_time |-> kiai_time, bar_line |-> bar_line]

create_effects(x) ==
    Effects(BitAnd(ShiftLeft(x, 0), 1) # 0, BitAnd(ShiftLeft(x, 3), 1) # 0)

\* TimingPoint(time, ..., uninherited, effects, beat_duration, sv_multiplier)
TimingPoint(time, uninherited, effects, beat_duration, sv_multiplier) ==
    [time |-> time, uninherited |-> uninherited, effects |-> effects,
     beat_duration |-> beat_duration, sv_multiplier |-> sv_multiplier]

HIT_CIRCLE == 1
SLIDER == 2
SPINNER == 8
HOLD_NOTE == 128

\* HitObjectType(value): the member with that value, or ValueError.
HitObjectType(value) ==
    CASE value = HIT_CIRCLE -> "HIT_CIRCLE"
      [] value = SLIDER -> "SLIDER"
      [] value = SPINNER -> "SPINNER"
      [] value = HOLD_NOTE -> "HOLD_NOTE"
      [] OTHER -> "ValueError"

\* CurveType(letter)
CurveType(letter) ==
    CASE letter = "B" -> "BEZIER"
      [] letter = "C" -> "CATMULL"
      [] letter = "L" -> "LINEAR"
      [] letter = "P" -> "PERFECT"
      [] OTHER -> "ValueError"

Curve(curve_type, curve_points) ==
    [curve_type |-> curve_type, curve_points |-> curve_points]

create_hit_sound(x) ==
    [normal |-> BitAnd(ShiftLeft(x, 0), 1) # 0,
     whistle |-> BitAnd(ShiftLeft(x, 1), 1) # 0,
     finish |-> BitAnd(ShiftLeft(x, 2), 1) # 0,
     clap |-> BitAnd(ShiftLeft(x, 3), 1) # 0]

\* The common fields of HitCircle, Slider and Spinner; cls is the class.
\* hit_sample is left out.
HitObject(cls, x, y, time, type, hit_sound, new_combo, combo_to_skip) ==
    [cls |-> cls, x |-> x, y |-> y, time |-> time, type |-> type,
     hit_sound |-> hit_sound, new_combo |-> new_combo,
     combo_to_skip |-> combo_to_skip]

NoTimingPoint == 0

HitCircle(x, y, time, type, hit_sound, new_combo, combo_to_skip) ==
    HitObject("HitCircle", x, y, time, type, hit_sound, new_combo, combo_to_skip)

\* end_time, duration and timing_point keep their defaults 0, 0 and None.
Slider(x, y, time, type, hit_sound, new_combo, combo_to_skip, curves, slides, length) ==
    HitObject("Slider", x, y, time, type, hit_sound, new_combo, combo_to_skip)
        @@ [curves |-> curves, slides |-> slides, length |-> length,
            end_time |-> RInt(0), duration |-> RInt(0),
            timing_point |-> NoTimingPoint]

Spinner(x, y, time, type, hit_sound, new_combo, combo_to_skip, end_time) ==
    HitObject("Spinner", x, y, time, type, hit_sound, new_combo, combo_to_skip)
        @@ [end_time |-> RInt(end_time)]

----------------------------------------------------------------------------
(* load(): the loop body.  The state of the loop is the record             *)
(* [section, beatmap, heap, object_type, err].                             *)

Raise(st, exception) == [st EXCEPT !.err = exception]

\* A header with an unrecognised name ends the active section.
SectionOrNone(current, section_text) ==
    CASE section_text = "General" -> "GENERAL"
      [] section_text = "Editor" -> "EDITOR"
      [] section_text = "Metadata" -> "METADATA"
      [] section_text = "Difficulty" -> "DIFFICULTY"
      [] section_text = "Events" -> "EVENTS"
      [] section_text = "TimingPoints" -> "TIMING_POINTS"
      [] section_text = "Colours" -> "COLORS"
      [] section_text = "HitObjects" -> "HIT_OBJECTS"
      [] OTHER -> "None"

\* The section a header line selects: an unrecognised name leaves it as it is.
SectionOf(current, section_text) ==
    CASE section_text = "General" -> "GENERAL"
      [] section_text = "Editor" -> "EDITOR"
      [] section_text = "Metadata" -> "METADATA"
      [] section_text = "Difficulty" -> "DIFFICULTY"
      [] section_text = "Events" -> "EVENTS"
      [] section_text = "TimingPoints" -> "TIMING_POINTS"
      [] section_text = "Colours" -> "COLORS"
      [] section_text = "HitObjects" -> "HIT_OBJECTS"
      [] OTHER -> current

\* list.append(obj) on the list object ref.
ListAppend(h, ref, obj) == [h EXCEPT ![ref] = Append(@, obj)]

\* The parts of a line between its colons.  A timing point line has no
\* colon, and of the hit object lines only a slider line has any: one in
\* every anchor and two in its edge sets.  A part of such a line is a word
\* that is no key and no literal.
Opaque == <<"...">>
ColonParts(line) ==
    CASE line.form = "text" -> Split(RStrip(line.text), ":")
      [] line.form = "tp" -> <<Opaque>>
      [] line.form = "ho" ->
           IF line.params.shape = "slider"
           THEN [k \in 1..(Len(line.params.curve_points) + 3) |-> Opaque]
           ELSE <<Opaque>>

\* The parts of line.split(":", maxsplit=1)
ColonPartsOnce(line) ==
    CASE line.form = "text" -> SplitOnce(RStrip(line.text), ":")
      [] Len(ColonParts(line)) = 1 -> <<Opaque>>
      [] OTHER -> <<Opaque, Opaque>>

\* The conversions of a value: str(value) or the value itself, int(value),
\* bool(int(value)) and Decimal(value); "plain" marks a field whose default
\* is an Enum member.
Converts(conv, value) ==
    CASE conv \in {"str", "plain str"} -> TRUE
      [] conv \in {"int", "plain int", "bool"} -> IsInt(value)
      [] conv = "Decimal" -> IsDecimalLiteral(value)
ConversionError(conv) == IF conv = "Decimal" THEN "InvalidOperation" ELSE "ValueError"
Converted(conv, value) ==
    CASE conv = "str" -> value
      [] conv = "plain str" -> Plain(value)
      [] conv = "int" -> IntOf(value)
      [] conv = "plain int" -> Plain(IntOf(value))
      [] conv = "bool" -> IntOf(value) # 0
      [] conv = "Decimal" -> Decimal(value)

\* beatmap.<record>.<field> = conv(value), for the entry <<field, conv>> of
\* the key's branch
Assign(st, record, entry, value) ==
    IF Converts(entry[2], value)
    THEN [st EXCEPT !.beatmap[record][entry[1]] = Converted(entry[2], value)]
    ELSE Raise(st, ConversionError(entry[2]))

\* The branch of the key, a sequence of tokens, in the table keys; no
\* branch is taken when the key is not one of the table's words.
HasBranch(keys, key) == Len(key) = 1 /\ key[1] \in DOMAIN keys

\* A new list object with the contents list, assigned to
\* beatmap.<record>.<field>
AssignNewList(st, record, field, list) ==
    [st EXCEPT !.heap = Append(@, list),
               !.beatmap[record][field] = Len(st.heap) + 1]

\* if section == Section.GENERAL: the branches of the elif chain
GeneralKeys ==
    [AudioFilename |-> <<"audio_filename", "str">>,
     AudioLeadIn |-> <<"audio_lead_in", "int">>,
     AudioHash |-> <<"audio_hash", "str">>,
     PreviewTime |-> <<"preview_time", "int">>,
     Countdown |-> <<"countdown", "plain int">>,
     SampleSet |-> <<"sample_set", "plain str">>,
     StackLeniency |-> <<"stack_leniency", "Decimal">>,
     Mode |-> <<"mode", "plain int">>,
     LetterboxInBreaks |-> <<"letterbox_in_breaks", "bool">>,
     StoryFireInFront |-> <<"story_fire_in_front", "bool">>,
     UseSkinSprites |-> <<"use_skin_sprites", "bool">>,
     AlwaysShowPlayfield |-> <<"always_show_playfield", "bool">>,
     OverlayPosition |-> <<"overlay_position", "plain str">>,
     SkinPreference |-> <<"skin_preference", "str">>,
     EpilepsyWarning |-> <<"epilepsy_warning", "bool">>,
     CountdownOffset |-> <<"countdown_offset", "int">>,
     SpecialStyle |-> <<"special_style", "bool">>,
     WidescreenStoryboard |-> <<"widescreen_storyboard", "bool">>,
     SamplesMatchPlaybackRate |-> <<"samples_match_playback_rate", "bool">>]

GeneralSection(st, line) ==
    LET parts == ColonParts(line)
    IN  IF Len(parts) # 2 THEN Raise(st, "ValueError")
        ELSE LET key == Strip(parts[1])
                 value == Strip(parts[2])
             IN  IF HasBranch(GeneralKeys, key)
                 THEN Assign(st, "general", GeneralKeys[key[1]], value)
                 ELSE st

\* elif section == Section.EDITOR: the if statements but the last
EditorKeys ==
    [DistanceSpacing |-> <<"distance_spacing", "Decimal">>,
     BeatDivisor |-> <<"beat_divisor", "int">>,
     GridSize |-> <<"grid_size", "int">>,
     TimelineZoom |-> <<"timeline_zoom", "Decimal">>]

EditorSection(st, line) ==
    LET parts == ColonParts(line)
    IN  IF Len(parts) # 2 THEN Raise(st, "ValueError")
        ELSE LET key == parts[1]
                 value == parts[2]
                 bookmarks == Split(value, ",")
             IN  CASE HasBranch(EditorKeys, key) ->
                        Assign(st, "editor", EditorKeys[key[1]], value)
                   [] key = <<"Bookmarks">> ->
                        IF \A k \in 1..Len(bookmarks) : IsInt(bookmarks[k])
                        THEN AssignNewList(st, "editor", "bookmarks",
                                 [k \in 1..Len(bookmarks) |-> IntOf(bookmarks[k])])
                        ELSE Raise(st, "ValueError")
                   [] OTHER -> st

\* elif section == Section.METADATA: the if statements but that of Tags
MetadataKeys ==
    [Title |-> <<"title", "str">>,
     TitleUnicode |-> <<"title_unicode", "str">>,
     Artist |-> <<"artist", "str">>,
     ArtistUnicode |-> <<"artist_unicode", "str">>,
     Creator |-> <<"creator", "str">>,
     Version |-> <<"version", "str">>,
     Source |-> <<"source", "str">>,
     BeatmapID |-> <<"beatmap_id", "int">>,
     BeatmapSetID |-> <<"beatmap_set_id", "int">>]

MetadataSection(st, line) ==
    LET parts == ColonPartsOnce(line)
    IN  IF Len(parts) # 2 THEN Raise(st, "ValueError")
        ELSE LET key == Strip(parts[1])
                 value == Strip(parts[2])
             IN  CASE HasBranch(MetadataKeys, key) ->
                        Assign(st, "metadata", MetadataKeys[key[1]], value)
                   [] key = <<"Tags">> ->
                        AssignNewList(st, "metadata", "tags", Split(value, " "))
                   [] OTHER -> st

\* elif section == Section.DIFFICULTY: the if statements
DifficultyKeys ==
    [HPDrainRate |-> <<"hp_drain_rate", "Decimal">>,
     CircleSize |-> <<"circle_size", "Decimal">>,
     OverallDifficulty |-> <<"overall_difficulty", "Decimal">>,
     ApproachRate |-> <<"approach_rate", "Decimal">>,
     SliderMultiplier |-> <<"slider_multiplier", "Decimal">>,
     SliderTickRate |-> <<"slider_tick_rate", "Decimal">>]

DifficultySection(st, line) ==
    LET parts == ColonParts(line)
    IN  IF Len(parts) # 2 THEN Raise(st, "ValueError")
        ELSE LET key == parts[1]
                 value == parts[2]
             IN  IF HasBranch(DifficultyKeys, key)
                 THEN Assign(st, "difficulty", DifficultyKeys[key[1]], value)
                 ELSE st

\* elif section == Section.TIMING_POINTS, on a timing point line
TimingPointsSection(st, line) ==
    LET time == line.time
        beat_length == RInt(line.beat_length)
        uninherited == line.uninherited
        effects == create_effects(line.effects)
    IN  IF uninherited
        THEN [st EXCEPT !.heap = ListAppend(@, st.beatmap.timing_points,
                 TimingPoint(time, uninherited, effects, beat_length, RInt(1)))]
        ELSE IF RIsZero(beat_length)
        THEN Raise(st, "DivisionByZero")
        ELSE [st EXCEPT !.heap = ListAppend(@, st.beatmap.timing_points,
                 TimingPoint(time, uninherited, effects, RInt(0),
                             RDiv(RInt(-100), beat_length)))]

\* word.startswith("Combo"), and word[5:] as tokens, for the words of the
\* files read here.
StartsWithCombo(word) == word \in {"Combo", "Combo1", "Combo2", "ComboX"}
AfterCombo(word) ==
    CASE word = "Combo" -> <<>>
      [] word = "Combo1" -> <<"1">>
      [] word = "Combo2" -> <<"2">>
      [] word = "ComboX" -> <<"X">>

\* elif section == Section.COLORS
ColoursSection(st, line) ==
    LET parts == ColonParts(line)
    IN  IF Len(parts) # 2 THEN Raise(st, "ValueError")
        ELSE LET key == Strip(parts[1])
                 value == Strip(parts[2])
                 components == Split(value, ",")
                 color == [k \in 1..Len(components) |-> IntOf(components[k])]
             IN  CASE \E k \in 1..Len(components) : ~IsInt(components[k]) ->
                        Raise(st, "ValueError")
                   [] key # <<>> /\ StartsWithCombo(key[1]) ->
                        IF IsInt(AfterCombo(key[1]) \o Tail(key))
                        THEN [st EXCEPT !.heap =
                                 ListAppend(@, st.beatmap.colors.colors, color)]
                        ELSE Raise(st, "ValueError")
                   [] key = <<"SliderTrackOverride">> ->
                        [st EXCEPT !.beatmap.colors.slider_track_override = color]
                   [] key = <<"SliderBorder">> ->
                        [st EXCEPT !.beatmap.colors.slider_border = color]
                   [] OTHER -> st

\* The Bezier loop: acc is [curves, curr_curve, prev_point] after the first
\* n points of curve_points.
\* The scan that leaves a repeated point at the end of the curve it closes.
RECURSIVE ScanClosingAfterRepeat(_, _, _)
ScanClosingAfterRepeat(acc, curve_points, n) ==
    IF n = 0 THEN acc
    ELSE LET a == ScanClosingAfterRepeat(acc, curve_points, n - 1)
             point == curve_points[n]
         IN  IF point[1] = a.prev_point[1] /\ point[2] = a.prev_point[2]
             THEN [curves |-> Append(a.curves,
                                     Curve("BEZIER", Append(a.curr_curve, point))),
                   curr_curve |-> <<>>,
                   prev_point |-> point]
             ELSE [curves |-> a.curves,
                   curr_curve |-> Append(a.curr_curve, point),
                   prev_point |-> point]

RECURSIVE BezierScan(_, _, _)
BezierScan(acc, curve_points, n) ==
    IF n = 0 THEN acc
    ELSE LET a == BezierScan(acc, curve_points, n - 1)
             point == curve_points[n]
         IN  IF point[1] = a.prev_point[1] /\ point[2] = a.prev_point[2]
             THEN [curves |-> Append(a.curves, Curve("BEZIER", a.curr_curve)),
                   curr_curve |-> <<point>>,
                   prev_point |-> point]
             ELSE [curves |-> a.curves,
                   curr_curve |-> Append(a.curr_curve, point),
                   prev_point |-> point]

\* The sentinel prev_point starts from.
Sentinel == <<-1, -1>>

\* The segmentation applied to every curve type.
SegmentedCurves(curve_type, x, y, curve_points) ==
    LET a == BezierScan([curves |-> <<>>, curr_curve |-> << <<x, y>> >>,
                         prev_point |-> Sentinel],
                        curve_points, Len(curve_points))
    IN  Append(a.curves, Curve(curve_type, a.curr_curve))

\* if curve_type == CurveType.BEZIER: ... else: ...
Curves(curve_type, x, y, curve_points) ==
    IF curve_type = "BEZIER"
    THEN LET a == BezierScan([curves |-> <<>>, curr_curve |-> << <<x, y>> >>,
                              prev_point |-> Sentinel],
                             curve_points, Len(curve_points))
         IN  Append(a.curves, Curve("BEZIER", a.curr_curve))
    ELSE << Curve(curve_type, << <<x, y>> >> \o curve_points) >>

\* elif section == Section.HIT_OBJECTS, on a hit object line
HitObjectsSection(st, line) ==
    LET x == line.x
        y == line.y
        start_time == line.time
        object_type_flag == line.type_flag
        type == HitObjectType(BitAnd(object_type_flag, 139))
        new_combo == BitAnd(object_type_flag, ShiftLeft(1, 2)) # 0
        combo_to_skip == BitAnd(ShiftLeft(object_type_flag, 4), 7)
        hit_sound == create_hit_sound(line.hit_sound)
        params == line.params
        s1 == [st EXCEPT !.object_type = type]
    IN  CASE type = "ValueError" -> Raise(st, "ValueError")
          [] type = "HIT_CIRCLE" ->
               \* a last parameter is read as the hit sample, which neither a
               \* spinner's end time nor a slider's edge sets are
               IF params.shape # "none" THEN Raise(s1, "ValueError")
               ELSE [s1 EXCEPT !.heap = ListAppend(@, st.beatmap.hit_objects,
                        HitCircle(x, y, start_time, type, hit_sound, new_combo,
                                  combo_to_skip))]
          [] type = "SLIDER" ->
               \* unpacking needs the five slider parameters
               IF params.shape # "slider" THEN Raise(s1, "ValueError")
               ELSE IF CurveType(params.curve_type) = "ValueError"
               THEN Raise(s1, "ValueError")
               ELSE [s1 EXCEPT !.heap = ListAppend(@, st.beatmap.hit_objects,
                        Slider(x, y, start_time, type, hit_sound, new_combo,
                               combo_to_skip,
                               Curves(CurveType(params.curve_type), x, y,
                                      params.curve_points),
                               params.slides, RInt(params.length)))]
          [] type = "SPINNER" ->
               \* the first parameter must be an integer, the last a hit sample
               IF params.shape # "spinner" THEN Raise(s1, "ValueError")
               ELSE [s1 EXCEPT !.heap = ListAppend(@, st.beatmap.hit_objects,
                        Spinner(x, y, start_time, type, hit_sound, new_combo,
                                combo_to_skip, params.end_time))]
          [] OTHER ->
               \* HOLD_NOTE: with the flag 128 the last elif passes; with any
               \* other flag no branch is taken at all
               s1

\* One iteration of "for line in lines".  The TimingPoints section reads
\* timing point lines and text lines, the HitObjects section hit object
\* lines and text lines; every other section reads every line.
ProcessLine(st, line) ==
    CASE line.form = "blank" -> st
      [] line.form = "header" ->
           [st EXCEPT !.section = SectionOf(st.section, line.name)]
      [] line.form = "text" /\ RStrip(line.text) = <<>> -> st
      [] OTHER ->
           CASE st.section = "GENERAL" -> GeneralSection(st, line)
             [] st.section = "EDITOR" -> EditorSection(st, line)
             [] st.section = "METADATA" -> MetadataSection(st, line)
             [] st.section = "DIFFICULTY" -> DifficultySection(st, line)
             [] st.section = "EVENTS" -> st
             [] st.section = "TIMING_POINTS" ->
                  \* a text line has too few fields to unpack
                  IF line.form = "text" THEN Raise(st, "ValueError")
                  ELSE TimingPointsSection(st, line)
             [] st.section = "COLORS" -> ColoursSection(st, line)
             [] st.section = "HIT_OBJECTS" ->
                  \* a text line has too few fields to unpack
                  IF line.form = "text" THEN Raise(st, "ValueError")
                  ELSE HitObjectsSection(st, line)
             [] st.section = "None" -> st

----------------------------------------------------------------------------
(* The resolver.  sorted(list, key=lambda x: x.time) is a new list of the  *)
(* same objects: it is modelled as the sequence of their indices in the    *)
(* original list.  Python's sort is stable.                                *)

\* order, a sorted sequence of indices of objs, with index k (greater than
\* all of them) put in: after every index whose time is not later.
InsertByTime(order, k, objs) ==
    LET before == Cardinality({j \in 1..Len(order) : objs[order[j]].time <= objs[k].time})
    IN  SubSeq(order, 1, before) \o <<k>> \o SubSeq(order, before + 1, Len(order))

RECURSIVE SortedPrefix(_, _)
SortedPrefix(objs, n) ==
    IF n = 0 THEN <<>> ELSE InsertByTime(SortedPrefix(objs, n - 1), n, objs)

\* A sort that is forgotten: the objects in the order of the list.
FileOrder(objs) == [j \in 1..Len(objs) |-> j]

\* sorted(objs, key=lambda x: x.time), as indices into objs
SortedByTime(objs) == SortedPrefix(objs, Len(objs))

\* The loop of populate_timing_point_properties after the first n timing
\* points of order: the timing points and last_beat_duration.
RECURSIVE BeatDurationLoop(_, _, _)
BeatDurationLoop(tps, order, n) ==
    IF n = 0 THEN [timing_points |-> tps, last_beat_duration |-> RInt(0)]
    ELSE LET a == BeatDurationLoop(tps, order, n - 1)
             k == order[n]
         IN  IF a.timing_points[k].uninherited
             THEN [a EXCEPT !.last_beat_duration = a.timing_points[k].beat_duration]
             ELSE [a EXCEPT !.timing_points[k].beat_duration = a.last_beat_duration]

\* The list sorted in place: the timing points in ascending time order.
populate_sorted_timing_points(tps) ==
    LET order == SortedByTime(tps)
        done == BeatDurationLoop(tps, order, Len(tps)).timing_points
    IN  [j \in 1..Len(tps) |-> done[order[j]]]

\* populate_timing_point_properties(beatmap), on the contents of
\* beatmap.timing_points
populate_timing_point_properties(tps) ==
    BeatDurationLoop(tps, SortedByTime(tps), Len(tps)).timing_points

\* math.inf, and a finite time
Inf == [inf |-> TRUE, t |-> 0]
Finite(t) == [inf |-> FALSE, t |-> t]
\* time > next_time, for time >= next_time
StrictlyAfter(time, next_time) == ~next_time.inf /\ time > next_time.t

\* time >= next_time
AtOrAfter(time, next_time) == ~next_time.inf /\ time >= next_time.t

NoCur == [timing_points |-> <<>>, i |-> 0, timing_point |-> NoTimingPoint,
          next_time |-> Inf, hit_objects |-> <<>>, done |-> 0]

\* populate_slider_properties up to its for loop: the locals, or the
\* IndexError of timing_points[0] or timing_points[1].  i is Python's index,
\* from 0; timing_point is the object's index in beatmap.timing_points, from 1.
SliderLoopEnter(tps, hos) ==
    LET order == SortedByTime(tps)
    IN  IF Len(order) < 2
        THEN [err |-> "IndexError", cur |-> NoCur]
        ELSE [err |-> "None",
              cur |-> [timing_points |-> order, i |-> 0,
                       timing_point |-> order[1],
                       next_time |-> Finite(tps[order[2]].time),
                       hit_objects |-> SortedByTime(hos), done |-> 0]]

\* while hit_object.time >= next_time: ...
RECURSIVE AdvanceCursor(_, _, _)
AdvanceCursor(c, tps, time) ==
    IF AtOrAfter(time, c.next_time)
    THEN LET i == c.i + 1
         IN  AdvanceCursor(
                 [c EXCEPT !.i = i,
                           !.timing_point = c.timing_points[i + 1],
                           !.next_time =
                               IF i + 1 < Len(c.timing_points)
                               THEN Finite(tps[c.timing_points[i + 2]].time)
                               ELSE Inf],
                 tps, time)
    ELSE c

\* The divisor with the slider multiplier left out.
DivisorWithoutSliderMultiplier(timing_point, slider_multiplier) ==
    RMul(timing_point.sv_multiplier, RInt(100))

\* timing_point.sv_multiplier * 100 * beatmap.difficulty.slider_multiplier
SliderDivisor(timing_point, slider_multiplier) ==
    RMul(RMul(timing_point.sv_multiplier, RInt(100)), slider_multiplier)

\* timing_point.beat_duration * hit_object.slides * hit_object.length / divisor
SliderDuration(timing_point, slides, length, slider_multiplier) ==
    RDiv(RMul(RMul(timing_point.beat_duration, RInt(slides)), length),
         SliderDivisor(timing_point, slider_multiplier))

\* The body of "for hit_object in hit_objects" on the hit object at index k
\* of hos: the locals, the hit objects and the exception raised.  A Decimal
\* division by zero raises DivisionByZero, 0 / 0 raises InvalidOperation.
SliderLoopBody(c, tps, hos, k, slider_multiplier) ==
    IF hos[k].type # "SLIDER"
    THEN [cur |-> c, hit_objects |-> hos, err |-> "None"]
    ELSE LET c1 == AdvanceCursor(c, tps, hos[k].time)
             timing_point == tps[c1.timing_point]
         IN  IF RIsZero(SliderDivisor(timing_point, slider_multiplier))
             THEN [cur |-> c1, hit_objects |-> hos,
                   err |-> IF RIsZero(timing_point.beat_duration)
                              \/ RIsZero(hos[k].length)
                              \/ hos[k].slides = 0
                           THEN "InvalidOperation" ELSE "DivisionByZero"]
             ELSE LET duration == SliderDuration(timing_point, hos[k].slides,
                                                 hos[k].length, slider_multiplier)
                  IN  [cur |-> c1,
                       hit_objects |->
                           [hos EXCEPT ![k].end_time = RAdd(RInt(hos[k].time), duration),
                                       ![k].duration = duration,
                                       ![k].timing_point = c1.timing_point],
                       err |-> "None"]

----------------------------------------------------------------------------
(* The model a caller holds: the Beatmap with its lists read through.      *)

Value(b, h) ==
    [general |-> b.general,
     editor |-> [b.editor EXCEPT !.bookmarks = h[b.editor.bookmarks]],
     metadata |-> [b.metadata EXCEPT !.tags = h[b.metadata.tags]],
     difficulty |-> b.difficulty,
     events |-> [events |-> h[b.events.events]],
     timing_points |-> h[b.timing_points],
     colors |-> [b.colors EXCEPT !.colors = h[b.colors.colors]],
     hit_objects |-> h[b.hit_objects]]

\* The list objects reachable from a Beatmap.
Lists(b) ==
    {b.editor.bookmarks, b.metadata.tags, b.events.events, b.timing_points,
     b.colors.colors, b.hit_objects}

----------------------------------------------------------------------------
(* The steps of a call of load().                                          *)

NoBeatmap == [none |-> TRUE]

Init ==
    /\ heap = ClassHeap
    /\ pc = "caller"
    /\ lines = <<>>
    /\ section = "None"
    /\ beatmap = NoBeatmap
    /\ object_type = "None"
    /\ cur = NoCur
    /\ err = "None"
    /\ returned = <<>>
    /\ calls = 0

\* The caller calls load(filename): beatmap = Beatmap(), section = None.
\* A caller makes at most max calls.
Call(max) ==
    /\ pc \in {"caller", "returned", "raised"}
    /\ calls < max
    /\ calls' = calls + 1
    /\ beatmap' = NewBeatmap(heap)
    /\ heap' = heap \o << <<>>, <<>> >>
    /\ section' = "None"
    /\ lines' = <<>>
    /\ object_type' = "None"
    /\ cur' = NoCur
    /\ err' = "None"
    /\ pc' = "lines"
    /\ UNCHANGED returned

\* One iteration of the loop over the lines, on the next line of the file.
ReadLine(line) ==
    /\ pc = "lines"
    /\ LET st == ProcessLine([section |-> section, beatmap |-> beatmap,
                              heap |-> heap, object_type |-> object_type,
                              err |-> "None"], line)
       IN  /\ section' = st.section
           /\ beatmap' = st.beatmap
           /\ heap' = st.heap
           /\ object_type' = st.object_type
           /\ err' = st.err
           /\ pc' = IF st.err = "None" THEN "lines" ELSE "raised"
    /\ lines' = Append(lines, line)
    /\ UNCHANGED <<cur, returned, calls>>

\* The file ends: populate_timing_point_properties(beatmap).
PopulateTimingPoints ==
    /\ pc = "lines"
    /\ heap' = [heap EXCEPT ![beatmap.timing_points] =
                                populate_timing_point_properties(@)]
    /\ pc' = "timing_points_done"
    /\ UNCHANGED <<lines, section, beatmap, object_type, cur, err, returned, calls>>

\* populate_slider_properties(beatmap), up to its loop.
EnterSliderLoop ==
    /\ pc = "timing_points_done"
    /\ LET r == SliderLoopEnter(heap[beatmap.timing_points], heap[beatmap.hit_objects])
       IN  /\ cur' = r.cur
           /\ err' = r.err
           /\ pc' = IF r.err = "None" THEN "sliders" ELSE "raised"
    /\ UNCHANGED <<heap, lines, section, beatmap, object_type, returned, calls>>

\* One iteration of the loop over the sorted hit objects.
SliderLoopStep ==
    /\ pc = "sliders"
    /\ cur.done < Len(cur.hit_objects)
    /\ LET r == SliderLoopBody(cur, heap[beatmap.timing_points],
                               heap[beatmap.hit_objects],
                               cur.hit_objects[cur.done + 1],
                               beatmap.difficulty.slider_multiplier)
       IN  /\ cur' = [r.cur EXCEPT !.done = cur.done + 1]
           /\ heap' = [heap EXCEPT ![beatmap.hit_objects] = r.hit_objects]
           /\ err' = r.err
           /\ pc' = IF r.err = "None" THEN "sliders" ELSE "raised"
    /\ UNCHANGED <<lines, section, beatmap, object_type, returned, calls>>

\* return beatmap
Return ==
    /\ pc = "sliders"
    /\ cur.done = Len(cur.hit_objects)
    /\ returned' = Append(returned, [input |-> lines, beatmap |-> beatmap,
                                     value |-> Value(beatmap, heap)])
    /\ pc' = "returned"
    /\ UNCHANGED <<heap, lines, section, beatmap, object_type, cur, err, calls>>

----------------------------------------------------------------------------
(* The files.  Each specification reads the files of one family; a family  *)
(* is given by the lines that may follow what has been read.  A file may   *)
(* end after any line.                                                     *)

Last(seq) == seq[Len(seq)]

TimingPointTimes == {0, 1000}
TimingPointLines ==
    {TimingPointLine(t, 500, TRUE) : t \in TimingPointTimes}
        \cup {TimingPointLine(t, 300, TRUE) : t \in TimingPointTimes}
        \cup {TimingPointLine(t, -50, FALSE) : t \in TimingPointTimes}

SliderTimes == {-500, 500, 1000}
LinearSlider(time) ==
    HitObjectLine(0, 0, time, 2, 0, SliderParams("L", << <<1, 1>> >>, 2, 350))
CircleLine(time) == HitObjectLine(0, 0, time, 1, 0, NoParams)

\* [Difficulty] with SliderMultiplier:1.4, [TimingPoints] with up to
\* MaxTimingPoints lines, [HitObjects] with up to MaxHitObjects sliders.
ResolverLines ==
    CASE section = "None" ->
           IF lines = <<>> THEN {Header("Difficulty")} ELSE {}
      [] section = "DIFFICULTY" ->
           IF Last(lines).form = "header"
           THEN {KeyValue("SliderMultiplier", <<"1.4">>)}
           ELSE {Header("TimingPoints")}
      [] section = "TIMING_POINTS" ->
           {Header("HitObjects")} \cup
           (IF Len(heap[beatmap.timing_points]) < MaxTimingPoints
            THEN TimingPointLines ELSE {})
      [] section = "HIT_OBJECTS" ->
           IF Len(heap[beatmap.hit_objects]) < MaxHitObjects
           THEN {LinearSlider(t) : t \in SliderTimes} ELSE {}
      [] OTHER -> {}

\* Two timing points, so that the resolver has what it indexes.
TwoTimingPoints ==
    <<Header("TimingPoints"), TimingPointLine(0, 500, TRUE),
      TimingPointLine(1000, -50, FALSE)>>

\* The lines that continue the beginning prefix, then those of rest.
After(prefix, rest) ==
    IF Len(lines) < Len(prefix)
    THEN IF SubSeq(prefix, 1, Len(lines)) = lines
         THEN {prefix[Len(lines) + 1]} ELSE {}
    ELSE IF lines = prefix THEN rest ELSE {}

\* After the timing points (or after SliderMultiplier:0 and the timing
\* points) a circle, then one line with any type flag and any shape of
\* parameters; or a timing point whose beat length is 0.
ParamShapes ==
    {NoParams, SpinnerParams(2000), SliderParams("L", << <<1, 1>> >>, 2, 350)}
AnyFlagLines ==
    {HitObjectLine(0, 0, 1000, f, 0, p) : f \in 0..MaxTypeFlag, p \in ParamShapes}
FlagLines ==
    After(TwoTimingPoints \o <<Header("HitObjects"), CircleLine(0)>>, AnyFlagLines)
      \cup After(<<Header("Difficulty"), KeyValue("SliderMultiplier", <<"0">>)>>
                   \o TwoTimingPoints \o <<Header("HitObjects"), CircleLine(0)>>,
                 AnyFlagLines)
      \cup After(<<Header("Events"), Header("TimingPoints"),
                   TimingPointLine(0, 0, FALSE)>>, {})

\* One slider line with any curve type, at one of two positions, with up to
\* MaxAnchors anchors.
Points == {<<-1, -1>>, <<0, 0>>, <<1, 1>>}
RECURSIVE PointSeqs(_)
PointSeqs(n) ==
    IF n = 0 THEN {<<>>}
    ELSE LET shorter == PointSeqs(n - 1)
         IN  shorter \cup {Append(q, pt) : q \in {r \in shorter : Len(r) = n - 1}, pt \in Points}
CurveLetters == {"B", "C", "L", "P", "X"}
CurveLines ==
    After(TwoTimingPoints \o <<Header("HitObjects")>>,
          {HitObjectLine(pos[1], pos[2], 1000, 2, 0, SliderParams(letter, q, 2, 350)) :
              pos \in {<<0, 0>>, <<-1, -1>>}, letter \in CurveLetters,
              q \in PointSeqs(MaxAnchors)})

\* Two timing points, the first with any effects field, and then a circle
\* with any hit sound field.
BitLines ==
    CASE Len(lines) = 0 -> {Header("TimingPoints")}
      [] Len(lines) = 1 ->
           {WithEffects(TimingPointLine(0, 500, TRUE), v) : v \in 0..MaxBitField}
      [] Len(lines) = 2 -> {TimingPointLine(1000, -50, FALSE)}
      [] Len(lines) = 3 -> {Header("HitObjects")}
      [] Len(lines) = 4 ->
           {HitObjectLine(0, 0, 1000, 1, v, NoParams) : v \in 0..MaxBitField}
      [] OTHER -> {}

\* The key/value lines of each section: keys bare and padded, recognised
\* and not, values with and without further colons.
GeneralTexts ==
    {Text(<<"AudioFilename", ":", " ", "a.mp3">>),
     Text(<<" ", "AudioLeadIn", " ", ":", " ", "1">>),
     Text(<<"AudioFilename", ":", " ", "a", ":", "b">>),
     Text(<<"Foo", ":", " ", "bar">>),
     Text(<<"Foo", ":", " ", "a", ":", "b">>)}
EditorTexts ==
    {Text(<<"BeatDivisor", ":", " ", "2">>),
     Text(<<"GridSize", " ", ":", " ", "2">>),
     Text(<<"Bookmarks", ":", "1", ",", "2">>),
     Text(<<"Bookmarks", ":", "1", ":", "2">>),
     Text(<<"Foo", ":", " ", "bar">>)}
MetadataTexts ==
    {Text(<<"Title", ":", " ", "Song", ":", " ", "Subtitle">>),
     Text(<<"Title", ":", "Song">>),
     Text(<<" ", "Artist", " ", ":", " ", "x">>),
     Text(<<"Tags", ":", "a", " ", "b">>),
     Text(<<"BeatmapID", ":", " ", "1">>),
     Text(<<"Foo", ":", " ", "a", ":", "b">>),
     Text(<<"NoColon">>)}
DifficultyTexts ==
    {Text(<<"SliderMultiplier", ":", "1.4">>),
     Text(<<"SliderMultiplier", ":", " ", "0.7">>),
     Text(<<"SliderMultiplier", " ", ":", " ", "2">>),
     Text(<<"HPDrainRate", ":", "1", ":", "4">>),
     Text(<<"Foo", ":", " ", "bar">>)}
ColoursTexts ==
    {Text(<<"Combo1", " ", ":", " ", "255", ",", "0", ",", "0">>),
     Text(<<"SliderBorder", ":", "255", ",", "0", ",", "0">>),
     Text(<<"Combo", ":", "1">>),
     Text(<<"Foo", ":", " ", "1">>),
     Text(<<"Foo", ":", " ", "bar">>)}

KeyValueSections == {"GENERAL", "EDITOR", "METADATA", "DIFFICULTY", "COLORS"}
UnknownHeaders == {Header("general"), Header("Colors")}

\* Possibly a line before every section; [TimingPoints] with two timing
\* points; [HitObjects] with a slider; one of the key/value sections with up
\* to MaxTextLines lines, each a key/value line of the section or a header
\* with an unrecognised name.
LinesBeforeTheTexts == IF lines # <<>> /\ lines[1] = Header("TimingPoints") THEN 6 ELSE 7
SectionLines ==
    CASE section = "None" ->
           IF lines = <<>>
           THEN {Header("TimingPoints"), Header("Unknown"),
                 Text(<<"Title", ":", "Song">>)}
           ELSE {Header("TimingPoints")}
      [] section = "TIMING_POINTS" ->
           CASE Len(heap[beatmap.timing_points]) = 0 -> {TimingPointLine(0, 500, TRUE)}
             [] Len(heap[beatmap.timing_points]) = 1 -> {TimingPointLine(1000, -50, FALSE)}
             [] OTHER -> {Header("HitObjects")}
      [] section = "HIT_OBJECTS" ->
           IF Len(heap[beatmap.hit_objects]) = 0
           THEN {LinearSlider(1000)}
           ELSE {Header("General"), Header("Editor"), Header("Metadata"),
                 Header("Difficulty"), Header("Colours")}
      [] section \in KeyValueSections ->
           IF Len(lines) - LinesBeforeTheTexts < MaxTextLines
           THEN UnknownHeaders \cup
                (CASE section = "GENERAL" -> GeneralTexts
                   [] section = "EDITOR" -> EditorTexts
                   [] section = "METADATA" -> MetadataTexts
                   [] section = "DIFFICULTY" -> DifficultyTexts
                   [] section = "COLORS" -> ColoursTexts)
           ELSE {}
      [] OTHER -> {}

\* Three timing points and two sliders, all at different times, in any
\* order within their sections.
PermutedTimingPoints ==
    {TimingPointLine(0, 500, TRUE), TimingPointLine(1000, -50, FALSE),
     TimingPointLine(2000, 300, TRUE)}
PermutedSliders == {LinearSlider(1500), LinearSlider(2500)}
LinesRead == {lines[i] : i \in 1..Len(lines)}
PermutedLines ==
    CASE section = "None" -> {Header("TimingPoints")}
      [] section = "TIMING_POINTS" ->
           IF PermutedTimingPoints \subseteq LinesRead
           THEN {Header("HitObjects")}
           ELSE PermutedTimingPoints \ LinesRead
      [] section = "HIT_OBJECTS" -> PermutedSliders \ LinesRead
      [] OTHER -> {}

\* A file of this family has all the lines.
PermutedEnds == PermutedSliders \subseteq LinesRead

\* [Colours] with up to MaxColours combo colours, then no timing point or
\* two, and then possibly a slider.
Red == <<"255", ",", "0", ",", "0">>
ReloadLines ==
    CASE section = "None" -> {Header("Colours")}
      [] section = "COLORS" ->
           {Header("TimingPoints")} \cup
           (IF Len(lines) <= MaxColours THEN {KeyValue("Combo1", Red)} ELSE {})
      [] section = "TIMING_POINTS" ->
           CASE Len(heap[beatmap.timing_points]) = 0 -> {TimingPointLine(0, 500, TRUE)}
             [] Len(heap[beatmap.timing_points]) = 1 -> {TimingPointLine(1000, -50, FALSE)}
             [] OTHER -> {Header("HitObjects")}
      [] section = "HIT_OBJECTS" ->
           IF Len(heap[beatmap.hit_objects]) = 0 THEN {LinearSlider(1000)} ELSE {}
      [] OTHER -> {}

\* A file of this family does not end inside its timing points.
ReloadEnds ==
    section = "TIMING_POINTS" => Len(heap[beatmap.timing_points]) # 1

\* Three timing points in any order, then a circle, a slider, a spinner and
\* a hold note, all at different times, in any order; a file may end after
\* any line of its hit objects.
SpinnerLine(time) == HitObjectLine(0, 0, time, 8, 0, SpinnerParams(time + 1000))
HoldLine(time) == HitObjectLine(0, 0, time, 128, 0, NoParams)
MixedObjects ==
    {CircleLine(2500), LinearSlider(1500), SpinnerLine(500), HoldLine(1000)}
MixedLines ==
    CASE section = "None" -> {Header("TimingPoints")}
      [] section = "TIMING_POINTS" ->
           IF PermutedTimingPoints \subseteq LinesRead
           THEN {Header("HitObjects")}
           ELSE PermutedTimingPoints \ LinesRead
      [] section = "HIT_OBJECTS" -> MixedObjects \ LinesRead
      [] OTHER -> {}
MixedEnds == section = "HIT_OBJECTS"

----------------------------------------------------------------------------
(* The specifications: the program calls load once on a file of the        *)
(* resolver family (Spec), of the type-flag family (SpecFlags), of the     *)
(* curve family (SpecCurves), of the bit-field family (SpecBits) or of the *)
(* key/value family (SpecSections); or it calls load up to MaxLoads times  *)
(* on files with colours (SpecReload) or on files that hold the same       *)
(* timing points and sliders in every order (SpecPermuted); or it calls    *)
(* load once on a file with hit objects of every type in any order         *)
(* (SpecMixed).                                                            *)

Finish ==
    \/ PopulateTimingPoints
    \/ EnterSliderLoop
    \/ SliderLoopStep
    \/ Return

Next ==
    \/ Call(1)
    \/ \E line \in ResolverLines : ReadLine(line)
    \/ Finish

Spec == Init /\ [][Next]_vars

NextFlags ==
    \/ Call(1)
    \/ \E line \in FlagLines : ReadLine(line)
    \/ Finish

SpecFlags == Init /\ [][NextFlags]_vars

NextCurves ==
    \/ Call(1)
    \/ \E line \in CurveLines : ReadLine(line)
    \/ Finish

SpecCurves == Init /\ [][NextCurves]_vars

NextBits ==
    \/ Call(1)
    \/ \E line \in BitLines : ReadLine(line)
    \/ Finish

SpecBits == Init /\ [][NextBits]_vars

NextSections ==
    \/ Call(1)
    \/ \E line \in SectionLines : ReadLine(line)
    \/ Finish

SpecSections == Init /\ [][NextSections]_vars

NextPermuted ==
    \/ Call(MaxLoads)
    \/ \E line \in PermutedLines : ReadLine(line)
    \/ PermutedEnds /\ PopulateTimingPoints
    \/ EnterSliderLoop
    \/ SliderLoopStep
    \/ Return

SpecPermuted == Init /\ [][NextPermuted]_vars

NextReload ==
    \/ Call(MaxLoads)
    \/ \E line \in ReloadLines : ReadLine(line)
    \/ ReloadEnds /\ PopulateTimingPoints
    \/ EnterSliderLoop
    \/ SliderLoopStep
    \/ Return

SpecReload == Init /\ [][NextReload]_vars

NextMixed ==
    \/ Call(1)
    \/ \E line \in MixedLines : ReadLine(line)
    \/ MixedEnds /\ PopulateTimingPoints
    \/ EnterSliderLoop
    \/ SliderLoopStep
    \/ Return

SpecMixed == Init /\ [][NextMixed]_vars

TypeOK ==
    /\ pc \in {"caller", "lines", "timing_points_done", "sliders", "returned", "raised"}
    /\ err \in {"None", "ValueError", "IndexError", "DivisionByZero", "InvalidOperation"}
    /\ (pc = "raised") = (err # "None")
    /\ calls \in 0..(MaxLoads + 1)

----------------------------------------------------------------------------
(* What the claims speak of.                                               *)

TimingPoints == heap[beatmap.timing_points]
HitObjects == heap[beatmap.hit_objects]
Sliders == {k \in 1..Len(HitObjects) : HitObjects[k].cls = "Slider"}

\* The lines of the file that are timing points, in file order: line j of
\* them is the source of timing point j.
TimingPointLinesRead == SelectSeq(lines, LAMBDA l : l.form = "tp")

\* Timing point a comes before timing point b in ascending time order; of two
\* timing points with one time, the one written first in the file comes first.
Precedes(a, b) ==
    \/ TimingPoints[a].time < TimingPoints[b].time
    \/ TimingPoints[a].time = TimingPoints[b].time /\ a < b

\* The timing points whose time is at or before time.
AtOrBefore(time) == {j \in 1..Len(TimingPoints) : TimingPoints[j].time <= time}

\* j is the last of the set S of timing points in ascending time order.
IsLastOf(j, S) == j \in S /\ \A m \in S \ {j} : Precedes(m, j)
IsFirstOf(j, S) == j \in S /\ \A m \in S \ {j} : Precedes(j, m)

\* Every Decimal the model holds is a finite decimal of a few digits, so
\* that exact arithmetic is the Decimal arithmetic of the code.
IsDecimal(r) == 1000000 % r[2] = 0 /\ Abs(r[1]) < 100000000
DecimalsExact ==
    pc # "caller" =>
        /\ IsDecimal(beatmap.difficulty.slider_multiplier)
        /\ \A j \in 1..Len(TimingPoints) :
               IsDecimal(TimingPoints[j].beat_duration)
                   /\ IsDecimal(TimingPoints[j].sv_multiplier)
        /\ \A k \in Sliders :
               IsDecimal(HitObjects[k].duration) /\ IsDecimal(HitObjects[k].end_time)

----------------------------------------------------------------------------
(* C1.  Two loads of identical input return structurally equal models: the *)
(* model a call of load returns, as it is when it is returned, depends     *)
(* only on the file and not on the calls made before.                      *)
C1_ReloadIsDeterministic ==
    \A j, k \in 1..Len(returned) :
        returned[j].input = returned[k].input
            => returned[j].value = returned[k].value

(* C2.  Every load returns an independently owned model: two returned      *)
(* models share no list, and every returned model still is what it was     *)
(* when it was returned, whatever load was called (and succeeded or        *)
(* failed) since.                                                          *)
C2_ModelsAreIndependent ==
    /\ \A j, k \in 1..Len(returned) :
           j # k => Lists(returned[j].beatmap) \cap Lists(returned[k].beatmap) = {}
    /\ \A k \in 1..Len(returned) :
           Value(returned[k].beatmap, heap) = returned[k].value

----------------------------------------------------------------------------
\* The timing point slider k is bound to.
Bound(k) == HitObjects[k].timing_point

(* C3, as claimed.  After a successful load every slider with start time T *)
(* is bound to the last timing point, in ascending time order, whose time  *)
(* is at or before T, and never to a timing point whose time is after T.   *)
C3_BoundAtOrBefore ==
    pc = "returned" =>
        \A k \in Sliders :
            /\ Bound(k) \in 1..Len(TimingPoints)
            /\ TimingPoints[Bound(k)].time <= HitObjects[k].time
            /\ IsLastOf(Bound(k), AtOrBefore(HitObjects[k].time))

(* C3, amended.  After a successful load every slider with start time T    *)
(* that has a timing point at or before T is bound to the last such timing *)
(* point in ascending time order (file order among equal times); a slider  *)
(* that starts before every timing point is bound to the first timing      *)
(* point in that order, whose time is after T.                             *)
C3_BoundToGoverning ==
    pc = "returned" =>
        \A k \in Sliders :
            IF AtOrBefore(HitObjects[k].time) # {}
            THEN IsLastOf(Bound(k), AtOrBefore(HitObjects[k].time))
            ELSE IsFirstOf(Bound(k), 1..Len(TimingPoints))

\* A load returned a slider that starts before every timing point and a
\* slider bound to a timing point that is not the first in time order and,
\* sharing its time with another, is the later of the two in the file.
C3_Witness ==
    /\ pc = "returned"
    /\ \E k \in Sliders : AtOrBefore(HitObjects[k].time) = {}
    /\ \E k \in Sliders :
           /\ AtOrBefore(HitObjects[k].time) # {}
           /\ \E m \in 1..Len(TimingPoints) :
                  m < Bound(k) /\ TimingPoints[m].time = TimingPoints[Bound(k)].time
           /\ \E m \in 1..Len(TimingPoints) :
                  TimingPoints[m].time < TimingPoints[Bound(k)].time

(* C4.  After a successful load every slider, bound to the timing point    *)
(* TP, has duration = TP.beat_duration * slides * length /                 *)
(* (TP.sv_multiplier * 100 * slider_multiplier) and end_time = start time  *)
(* + duration; and with the timing points (0, uninherited, 500) and (1000, *)
(* inherited, sv_multiplier 2), slider_multiplier 1.4 and a slider at 1000 *)
(* with 2 slides and length 350, the slider is bound to the second timing  *)
(* point, its duration is 1250 and its end_time 2250.                      *)
C4_Example ==
    <<Header("Difficulty"), KeyValue("SliderMultiplier", <<"1.4">>),
      Header("TimingPoints"), TimingPointLine(0, 500, TRUE),
      TimingPointLine(1000, -50, FALSE),
      Header("HitObjects"), LinearSlider(1000)>>

C4_SliderDuration ==
    pc = "returned" =>
        /\ \A k \in Sliders :
               LET tp == TimingPoints[Bound(k)]
                   o == HitObjects[k]
                   sm == beatmap.difficulty.slider_multiplier
               IN  \* duration * (sv * 100 * sm) = beat_duration * slides * length
                   /\ o.duration[1] * tp.sv_multiplier[1] * 100 * sm[1]
                          * tp.beat_duration[2] * o.length[2]
                        = tp.beat_duration[1] * o.slides * o.length[1]
                          * o.duration[2] * tp.sv_multiplier[2] * sm[2]
                   \* end_time = time + duration
                   /\ o.end_time[1] * o.duration[2]
                        = (o.time * o.duration[2] + o.duration[1]) * o.end_time[2]
        /\ lines = C4_Example =>
               /\ TimingPoints[2].sv_multiplier = <<2, 1>>
               /\ Bound(1) = 2
               /\ HitObjects[1].duration = <<1250, 1>>
               /\ HitObjects[1].end_time = <<2250, 1>>

\* The load of the example returned, with a duration that is not 0.
C4_Witness ==
    /\ pc = "returned"
    /\ lines = C4_Example
    /\ HitObjects[1].slides = 2 /\ HitObjects[1].length = <<350, 1>>
    /\ ~RIsZero(HitObjects[1].duration)

C6_NoTimingPointsIsExplicit ==
    (pc \in {"returned", "raised"} /\ TimingPoints = <<>>)
        => err = "MissingContextError"

(* C7.  A slider whose timing point has no uninherited timing point at or  *)
(* before it in time order is never resolved: the load does not return a   *)
(* model with such a slider (resolved with a beat duration of 0).          *)
C7_NoSilentDefault ==
    pc = "returned" =>
        \A k \in Sliders :
            \E u \in 1..Len(TimingPoints) :
                /\ TimingPoints[u].uninherited
                /\ u = Bound(k) \/ Precedes(u, Bound(k))

----------------------------------------------------------------------------
\* Bit n of the non-negative integer v is set.
BitSet(v, n) == (v \div Pow2(n)) % 2 = 1

\* The object types whose bit is set in the type flag v.
TypeBits(v) ==
    {t \in {"HIT_CIRCLE", "SLIDER", "SPINNER", "HOLD_NOTE"} :
        \/ t = "HIT_CIRCLE" /\ BitSet(v, 0)
        \/ t = "SLIDER" /\ BitSet(v, 1)
        \/ t = "SPINNER" /\ BitSet(v, 3)
        \/ t = "HOLD_NOTE" /\ BitSet(v, 7)}

\* The last line read is a hit object line, read in the HitObjects section.
HitObjectLineRead ==
    /\ pc \in {"lines", "raised"}
    /\ lines # <<>>
    /\ Last(lines).form = "ho"
    /\ section = "HIT_OBJECTS"

(* C8.  For every type flag M the decoded object type of a hit object line *)
(* is exactly the set of the types circle, slider, spinner and hold whose  *)
(* bit (0, 1, 3, 7) is set in M, also when no or several of the bits are   *)
(* set.                                                                    *)
C8_TypeIsTheSetOfBits ==
    HitObjectLineRead =>
        {object_type} \cap {"HIT_CIRCLE", "SLIDER", "SPINNER", "HOLD_NOTE"}
            = TypeBits(Last(lines).type_flag)

(* C9.  Reading a hit object line whose type flag has bit 7 set raises no  *)
(* error and leaves the list of hit objects as it was before the line.     *)
C9_HoldNoteIsSkipped ==
    [][(/\ pc = "lines"
        /\ section = "HIT_OBJECTS"
        /\ lines' # lines
        /\ Last(lines').form = "ho"
        /\ BitSet(Last(lines').type_flag, 7))
          => (err' = "None" /\ heap'[beatmap.hit_objects] = heap[beatmap.hit_objects])]_vars

\* The points of the curves of a slider, one after the other.
RECURSIVE Concat(_, _)
Concat(curves, n) ==
    IF n = 0 THEN <<>> ELSE Concat(curves, n - 1) \o curves[n].curve_points

(* C10.  The curves of a Bezier slider split the sequence of its position  *)
(* followed by its anchors at every point that equals the point before it  *)
(* in that sequence, and nowhere else: there is one more curve than there  *)
(* are such points, and each such point is the first point of a curve.  So *)
(* exactly one pair of equal neighbours gives exactly two curves.          *)
C10_SplitAtRepeatedPoints ==
    (HitObjectLineRead /\ err = "None" /\ Last(lines).params.shape = "slider"
        /\ Last(lines).params.curve_type = "B" /\ object_type = "SLIDER") =>
        LET line == Last(lines)
            points == << <<line.x, line.y>> >> \o line.params.curve_points
            repeated == {i \in 2..Len(points) : points[i] = points[i - 1]}
            curves == Last(HitObjects).curves
            starts == {Len(Concat(curves, n - 1)) + 1 : n \in 1..Len(curves)}
        IN  /\ Len(curves) = 1 + Cardinality(repeated)
            /\ starts = {1} \cup repeated

----------------------------------------------------------------------------
\* The last line read is a slider line with the curve letter of a curve
\* type other than Bezier, and it was decoded.
NonBezierSliderRead ==
    /\ HitObjectLineRead
    /\ err = "None"
    /\ object_type = "SLIDER"
    /\ Last(lines).params.shape = "slider"
    /\ Last(lines).params.curve_type \in {"C", "L", "P"}

(* C11.  A slider whose curve type is Catmull, linear or perfect circle    *)
(* has exactly one curve, of that type, whose points are the slider's      *)
(* position followed by the anchors of its line, in order and unmodified,  *)
(* also when neighbouring anchors are equal.                               *)
C11_OneCurveUnsegmented ==
    NonBezierSliderRead =>
        LET line == Last(lines)
            curves == Last(HitObjects).curves
        IN  /\ Len(curves) = 1
            /\ curves[1].curve_type = CurveType(line.params.curve_type)
            /\ curves[1].curve_points
                   = << <<line.x, line.y>> >> \o line.params.curve_points

\* A slider that is not a Bezier was decoded whose first anchor is its
\* position and whose second and third anchors are equal.
C11_Witness ==
    /\ NonBezierSliderRead
    /\ LET line == Last(lines)
           anchors == line.params.curve_points
       IN  /\ Len(anchors) = 3
           /\ anchors[1] = <<line.x, line.y>>
           /\ anchors[2] = anchors[3]
           /\ Len(Last(HitObjects).curves[1].curve_points) = 4

----------------------------------------------------------------------------
(* C12.  For every hit sound field v of a hit object line the decoded hit  *)
(* sound has normal, whistle, finish and clap exactly when bits 0, 1, 2    *)
(* and 3 of v are set, and for every effects field v of a timing point     *)
(* line the decoded effects have kiai time exactly when bit 0 of v is set  *)
(* and the omitted first barline exactly when bit 3 of v is set.           *)
C12_FlagsAreTheBits ==
    pc = "returned" =>
        /\ \A k \in 1..Len(HitObjects) :
               LET v == SelectSeq(lines, LAMBDA l : l.form = "ho")[k].hit_sound
                   hit_sound == HitObjects[k].hit_sound
               IN  /\ hit_sound.normal = BitSet(v, 0)
                   /\ hit_sound.whistle = BitSet(v, 1)
                   /\ hit_sound.finish = BitSet(v, 2)
                   /\ hit_sound.clap = BitSet(v, 3)
        /\ \A j \in 1..Len(TimingPoints) :
               LET v == TimingPointLinesRead[j].effects
                   effects == TimingPoints[j].effects
               IN  /\ effects.kiai_time = BitSet(v, 0)
                   /\ effects.bar_line = BitSet(v, 3)

----------------------------------------------------------------------------
(* C13.  Every hit object built from a line with type flag v stores, as    *)
(* its combo colour skip count, the 3-bit field in bits 4 to 6 of v.       *)
C13_ComboSkipIsBits4To6 ==
    (HitObjectLineRead /\ err = "None"
        /\ object_type \in {"HIT_CIRCLE", "SLIDER", "SPINNER"}) =>
        Last(HitObjects).combo_to_skip = (Last(lines).type_flag \div 16) % 8

----------------------------------------------------------------------------
(* The key/value lines, as the format describes them.                      *)

\* The name is one of the eight section names.
Recognised(name) ==
    name \in {"General", "Editor", "Metadata", "Difficulty", "Events",
              "TimingPoints", "Colours", "HitObjects"}

\* Line i of the file is a data line: neither blank nor a header.
IsData(i) == lines[i].form \notin {"blank", "header"}

\* A header with a recognised name is among the first n lines of the file.
SectionOpened(n) ==
    \E i \in 1..n : lines[i].form = "header" /\ Recognised(lines[i].name)

\* The text has a colon; its key is the trimmed text before the first
\* colon, its value the trimmed text after it.
HasColon(text) == \E i \in 1..Len(text) : text[i] = ":"
FirstColon(text) ==
    CHOOSE i \in 1..Len(text) :
        text[i] = ":" /\ \A j \in 1..(i - 1) : text[j] # ":"
KeyOf(text) == Strip(SubSeq(text, 1, FirstColon(text) - 1))
ValueOf(text) == Strip(SubSeq(text, FirstColon(text) + 1, Len(text)))

\* The last line read is a key/value line, read in the section sec.
KeyValueLineRead(sec) ==
    /\ pc \in {"lines", "raised"}
    /\ lines # <<>>
    /\ section = sec
    /\ Last(lines).form = "text"
    /\ HasColon(Last(lines).text)

(* C14.  A data line read while no section is active makes the load fail   *)
(* with a missing-context error: the load never goes on, or returns, with  *)
(* such a line dropped.                                                    *)
C14_DataLineNeedsASection ==
    \A i \in 1..Len(lines) :
        (IsData(i) /\ ~SectionOpened(i - 1)) => err = "MissingContextError"

\* The section the headers among the first n lines of the file select, by
\* the rule that a header with an unrecognised name selects nothing.
RECURSIVE ActiveSection(_)
ActiveSection(n) ==
    IF n = 0 THEN "None"
    ELSE IF lines[n].form = "header" /\ Recognised(lines[n].name)
    THEN SectionOf("None", lines[n].name)
    ELSE ActiveSection(n - 1)

(* C15.  Reading a header line whose name is not one of the eight section  *)
(* names raises no error and changes neither the active section nor the    *)
(* model, so that the active section always is the one the last header     *)
(* with a recognised name selected, and the data lines after the header    *)
(* are decoded by that section.                                            *)
C15_UnknownHeaderKeepsTheSection ==
    /\ [](pc \in {"lines", "raised"} => section = ActiveSection(Len(lines)))
    /\ [][(/\ pc = "lines"
           /\ lines' # lines
           /\ Last(lines').form = "header"
           /\ ~Recognised(Last(lines').name))
             => (/\ err' = "None"
                 /\ section' = section
                 /\ beatmap' = beatmap
                 /\ heap' = heap)]_vars

\* In the Metadata section a header with an unrecognised name was read and
\* after it a Title line, which was stored.
C15_Witness ==
    /\ pc = "lines"
    /\ section = "METADATA"
    /\ Len(lines) >= 2
    /\ lines[Len(lines) - 1].form = "header"
    /\ ~Recognised(lines[Len(lines) - 1].name)
    /\ Last(lines) = Text(<<"Title", ":", "Song">>)
    /\ beatmap.metadata.title = <<"Song">>

\* The Metadata keys whose values are stored as they are.
MetadataStrings ==
    [Title |-> "title", TitleUnicode |-> "title_unicode", Artist |-> "artist",
     ArtistUnicode |-> "artist_unicode", Creator |-> "creator",
     Version |-> "version", Source |-> "source"]

(* C16.  A Metadata line is split on its first colon only: a line whose    *)
(* trimmed text before the first colon is one of the keys Title,           *)
(* TitleUnicode, Artist, ArtistUnicode, Creator, Version and Source is     *)
(* read without error and stores the trimmed remainder, further colons     *)
(* included; "Title: Song: Subtitle" stores the title "Song: Subtitle".    *)
C16_SplitOnFirstColonOnly ==
    KeyValueLineRead("METADATA") =>
        LET key == KeyOf(Last(lines).text)
            value == ValueOf(Last(lines).text)
        IN  /\ (Len(key) = 1 /\ key[1] \in DOMAIN MetadataStrings) =>
                   /\ err = "None"
                   /\ beatmap.metadata[MetadataStrings[key[1]]] = value
            /\ Last(lines).text = <<"Title", ":", " ", "Song", ":", " ", "Subtitle">> =>
                   beatmap.metadata.title = <<"Song", ":", " ", "Subtitle">>

\* The line "Title: Song: Subtitle" was read and its title stored.
C16_Witness ==
    /\ KeyValueLineRead("METADATA")
    /\ Last(lines).text = <<"Title", ":", " ", "Song", ":", " ", "Subtitle">>
    /\ Cardinality(Positions(ValueOf(Last(lines).text), ":")) = 1
    /\ beatmap.metadata.title = ValueOf(Last(lines).text)

----------------------------------------------------------------------------
\* The record of the model a section's lines are stored in, and the keys
\* of the section whose values are stored after one conversion.
RecordOf(sec) ==
    CASE sec = "GENERAL" -> "general"
      [] sec = "EDITOR" -> "editor"
      [] sec = "METADATA" -> "metadata"
      [] sec = "DIFFICULTY" -> "difficulty"
      [] sec = "COLORS" -> "colors"
KeysOf(sec) ==
    CASE sec = "GENERAL" -> GeneralKeys
      [] sec = "EDITOR" -> EditorKeys
      [] sec = "METADATA" -> MetadataKeys
      [] sec = "DIFFICULTY" -> DifficultyKeys

(* C17.  A line of the General, Editor or Difficulty section is split on   *)
(* its first colon and both sides are trimmed: when the trimmed text       *)
(* before the first colon is a key of the section and the trimmed text     *)
(* after it, further colons included, is a value of the key's type, the    *)
(* line is read without error and the value is stored in the key's field.  *)
C17_KeyAndValueAreTrimmed ==
    \A sec \in {"GENERAL", "EDITOR", "DIFFICULTY"} :
        KeyValueLineRead(sec) =>
            LET key == KeyOf(Last(lines).text)
                value == ValueOf(Last(lines).text)
            IN  (HasBranch(KeysOf(sec), key)
                    /\ Converts(KeysOf(sec)[key[1]][2], value)) =>
                    /\ err = "None"
                    /\ beatmap[RecordOf(sec)][KeysOf(sec)[key[1]][1]]
                           = Converted(KeysOf(sec)[key[1]][2], value)

\* The key is a recognised key of the section.
KnownKey(sec, key) ==
    CASE sec = "EDITOR" -> HasBranch(EditorKeys, key) \/ key = <<"Bookmarks">>
      [] sec = "METADATA" -> HasBranch(MetadataKeys, key) \/ key = <<"Tags">>
      [] sec = "COLORS" ->
           \/ key \in {<<"SliderTrackOverride">>, <<"SliderBorder">>}
           \/ key # <<>> /\ StartsWithCombo(key[1])
      [] OTHER -> HasBranch(KeysOf(sec), key)

(* C18.  Reading, in the General, Editor, Metadata, Difficulty or Colours  *)
(* section, a key/value line whose key is not a recognised key of the      *)
(* section raises no error, whatever the value is, and leaves the model    *)
(* as it was.                                                              *)
C18_UnknownKeyIsIgnored ==
    [][(/\ pc = "lines"
        /\ section \in KeyValueSections
        /\ lines' # lines
        /\ Last(lines').form = "text"
        /\ HasColon(Last(lines').text)
        /\ ~KnownKey(section, KeyOf(Last(lines').text)))
          => (/\ err' = "None"
              /\ beatmap' = beatmap
              /\ heap' = heap)]_vars

----------------------------------------------------------------------------
\* The cursor of populate_slider_properties is on a timing point: its index
\* i is an index of the sorted timing points (counted from 0) and
\* timing_point is the timing point at that index.
CursorInBounds ==
    pc \in {"sliders", "returned"} =>
        /\ cur.i \in 0..(Len(cur.timing_points) - 1)
        /\ cur.timing_point = cur.timing_points[cur.i + 1]

\* From one hit object to the next the cursor does not move back.
CursorNeverRewinds ==
    [][(pc = "sliders" /\ pc' = "sliders") => cur'.i >= cur.i]_vars

(* C19.  During slider resolution the index of the timing point cursor     *)
(* never decreases from one slider to the next and no index is used that   *)
(* is out of the bounds of the timing point sequence, for every number of  *)
(* timing points and every placement of the sliders' times.                *)
C19_CursorAdvancesInBounds ==
    /\ []CursorInBounds
    /\ [](err # "IndexError")
    /\ CursorNeverRewinds

----------------------------------------------------------------------------
\* The sequence order of indices into objs is in non-decreasing time order.
InTimeOrder(order, objs) ==
    \A m, n \in 1..Len(order) : m < n => objs[order[m]].time <= objs[order[n]].time

\* Two files hold the same lines, in whatever order.
SameLines(f, g) ==
    /\ Len(f) = Len(g)
    /\ \A l \in {f[i] : i \in 1..Len(f)} :
           Cardinality({i \in 1..Len(f) : f[i] = l})
               = Cardinality({i \in 1..Len(g) : g[i] = l})

(* C20.  Whatever the order of the TimingPoints and HitObjects lines, the  *)
(* resolver goes through the timing points and through the hit objects in  *)
(* non-decreasing time order, and two loads of files that hold the same    *)
(* lines, all at different times, in different orders resolve every        *)
(* timing point to the same beat_duration and every slider to the same     *)
(* duration, the same end_time and the timing point of the same time.      *)
C20_OrderOfLinesIsImmaterial ==
    /\ pc \in {"sliders", "returned"} =>
           /\ InTimeOrder(cur.timing_points, TimingPoints)
           /\ InTimeOrder(cur.hit_objects, HitObjects)
           /\ Len(cur.timing_points) = Len(TimingPoints)
           /\ Len(cur.hit_objects) = Len(HitObjects)
    /\ \A j, k \in 1..Len(returned) :
           SameLines(returned[j].input, returned[k].input) =>
               LET a == returned[j].value
                   b == returned[k].value
               IN  /\ \A m \in 1..Len(a.timing_points), n \in 1..Len(b.timing_points) :
                          a.timing_points[m].time = b.timing_points[n].time
                              => a.timing_points[m] = b.timing_points[n]
                   /\ \A m \in 1..Len(a.hit_objects), n \in 1..Len(b.hit_objects) :
                          a.hit_objects[m].time = b.hit_objects[n].time =>
                              /\ a.hit_objects[m].duration = b.hit_objects[n].duration
                              /\ a.hit_objects[m].end_time = b.hit_objects[n].end_time
                              /\ a.timing_points[a.hit_objects[m].timing_point].time
                                     = b.timing_points[b.hit_objects[n].timing_point].time

\* Two loads returned: one of a file with its timing points and sliders in
\* ascending time order, one of a file with the same lines where neither
\* are, and an inherited timing point was given a beat duration.
C20_Witness ==
    /\ Len(returned) = 2
    /\ returned[1].input # returned[2].input
    /\ SameLines(returned[1].input, returned[2].input)
    /\ LET a == returned[1].value
           b == returned[2].value
       IN  /\ Len(a.timing_points) = 3 /\ Len(a.hit_objects) = 2
           /\ InTimeOrder(<<1, 2, 3>>, a.timing_points)
           /\ InTimeOrder(<<1, 2>>, a.hit_objects)
           /\ ~InTimeOrder(<<1, 2>>, b.timing_points)
           /\ ~InTimeOrder(<<1, 2>>, b.hit_objects)
           /\ \E m \in 1..3 : /\ ~b.timing_points[m].uninherited
                              /\ ~RIsZero(b.timing_points[m].beat_duration)
           /\ \A m \in 1..2 : ~RIsZero(b.hit_objects[m].duration)

----------------------------------------------------------------------------
(* The second loader, load() of src/beatmap/main.py, on the files of the   *)
(* curve family: header lines, timing point lines in the TimingPoints      *)
(* section and hit object lines in the HitObjects section.  Its records    *)
(* carry the field names of its classes; the fields left out of the        *)
(* records of the first loader are left out here too.  The state of its    *)
(* loop is the record [section, beatmap, err]; its Beatmap() is given two  *)
(* lists of its own by default_field, and no other list is touched by the  *)
(* lines read here.                                                        *)

MainEffects(kiai_time, bar_line) == [KiaiTime |-> kiai_time, BarLine |-> bar_line]

main_create_effects(x) ==
    MainEffects(BitAnd(ShiftLeft(x, 0), 1) # 0, BitAnd(ShiftLeft(x, 3), 1) # 0)

\* UninheritedTimingPoint(time, ..., uninherited, effects, beat_length)
UninheritedTimingPoint(time, uninherited, effects, beatDuration) ==
    [cls |-> "UninheritedTimingPoint", time |-> time,
     uninherited |-> uninherited, effects |-> effects,
     beatDuration |-> beatDuration]

\* InheritedTimingPoint(time, ..., uninherited, effects, -100 / beat_length)
InheritedTimingPoint(time, uninherited, effects, svMultiplier) ==
    [cls |-> "InheritedTimingPoint", time |-> time,
     uninherited |-> uninherited, effects |-> effects,
     svMultiplier |-> svMultiplier]

\* Curve(curve_type, curve_points): curve_type is the letter of the line.
MainCurve(curveType, curvePoints) ==
    [curveType |-> curveType, curvePoints |-> curvePoints]

MainHitObject(cls, x, y, time, type, hitSound, newCombo, comboToSkip) ==
    [cls |-> cls, x |-> x, y |-> y, time |-> time, type |-> type,
     hitSound |-> hitSound, newCombo |-> newCombo,
     comboToSkip |-> comboToSkip]

MainHitCircle(x, y, time, type, hitSound, newCombo, comboToSkip) ==
    MainHitObject("HitCircle", x, y, time, type, hitSound, newCombo, comboToSkip)

\* endTime keeps its default 0.
MainSlider(x, y, time, type, hitSound, newCombo, comboToSkip, curves, slides, length) ==
    MainHitObject("Slider", x, y, time, type, hitSound, newCombo, comboToSkip)
        @@ [curves |-> curves, slides |-> slides, length |-> length,
            endTime |-> 0]

MainSpinner(x, y, time, type, hitSound, newCombo, comboToSkip, endTime) ==
    MainHitObject("Spinner", x, y, time, type, hitSound, newCombo, comboToSkip)
        @@ [endTime |-> endTime]

\* beatmap = Beatmap()
MainBeatmap == [timingPoints |-> <<>>, hit_objects |-> <<>>]

\* elif section == Section.TIMING_POINTS, on a timing point line
MainTimingPointsSection(st, line) ==
    LET time == line.time
        beat_length == RInt(line.beat_length)
        uninherited == line.uninherited
        effects == main_create_effects(line.effects)
    IN  IF uninherited
        THEN [st EXCEPT !.beatmap.timingPoints = Append(@,
                 UninheritedTimingPoint(time, uninherited, effects, beat_length))]
        ELSE IF RIsZero(beat_length)
        THEN Raise(st, "DivisionByZero")
        ELSE [st EXCEPT !.beatmap.timingPoints = Append(@,
                 InheritedTimingPoint(time, uninherited, effects,
                                      RDiv(RInt(-100), beat_length)))]

\* elif section == Section.HIT_OBJECTS, on a hit object line
MainHitObjectsSection(st, line) ==
    LET x == line.x
        y == line.y
        start_time == line.time
        object_type_flag == line.type_flag
        type == HitObjectType(BitAnd(object_type_flag, 139))
        new_combo == BitAnd(object_type_flag, ShiftLeft(1, 2)) # 0
        combo_to_skip == BitAnd(ShiftLeft(object_type_flag, 4), 7)
        hit_sound == create_hit_sound(line.hit_sound)
        params == line.params
    IN  CASE type = "ValueError" -> Raise(st, "ValueError")
          [] type = "HIT_CIRCLE" ->
               IF params.shape # "none" THEN Raise(st, "ValueError")
               ELSE [st EXCEPT !.beatmap.hit_objects = Append(@,
                        MainHitCircle(x, y, start_time, type, hit_sound,
                                      new_combo, combo_to_skip))]
          [] type = "SLIDER" ->
               IF params.shape # "slider" THEN Raise(st, "ValueError")
               ELSE [st EXCEPT !.beatmap.hit_objects = Append(@,
                        MainSlider(x, y, start_time, type, hit_sound, new_combo,
                                   combo_to_skip,
                                   << MainCurve(params.curve_type,
                                                params.curve_points) >>,
                                   params.slides, RInt(params.length)))]
          [] type = "SPINNER" ->
               IF params.shape # "spinner" THEN Raise(st, "ValueError")
               ELSE [st EXCEPT !.beatmap.hit_objects = Append(@,
                        MainSpinner(x, y, start_time, type, hit_sound, new_combo,
                                    combo_to_skip, params.end_time))]
          [] OTHER -> st

\* One iteration of "for line in lines"; the header router is that of the
\* first loader.
MainProcessLine(st, line) ==
    CASE line.form = "blank" -> st
      [] line.form = "header" ->
           [st EXCEPT !.section = SectionOf(st.section, line.name)]
      [] line.form = "tp" /\ st.section = "TIMING_POINTS" ->
           MainTimingPointsSection(st, line)
      [] line.form = "ho" /\ st.section = "HIT_OBJECTS" ->
           MainHitObjectsSection(st, line)

\* The state of the loop of load(file) after the first n lines of the file,
\* or the state in which a line raised.
RECURSIVE MainLoop(_, _)
MainLoop(file, n) ==
    IF n = 0 THEN [section |-> "None", beatmap |-> MainBeatmap, err |-> "None"]
    ELSE LET st == MainLoop(file, n - 1)
         IN  IF st.err # "None" THEN st ELSE MainProcessLine(st, file[n])

\* The value of CurveType's member.
CurveTypeValue(member) ==
    CASE member = "BEZIER" -> "B"
      [] member = "CATMULL" -> "C"
      [] member = "LINEAR" -> "L"
      [] member = "PERFECT" -> "P"

\* A hit object of the first loader, before the resolver, under the field
\* names of the second.
Renamed(obj) ==
    CASE obj.cls = "HitCircle" ->
           MainHitCircle(obj.x, obj.y, obj.time, obj.type, obj.hit_sound,
                         obj.new_combo, obj.combo_to_skip)
      [] obj.cls = "Slider" ->
           MainSlider(obj.x, obj.y, obj.time, obj.type, obj.hit_sound,
                      obj.new_combo, obj.combo_to_skip,
                      [k \in 1..Len(obj.curves) |->
                          MainCurve(CurveTypeValue(obj.curves[k].curve_type),
                                    obj.curves[k].curve_points)],
                      obj.slides, obj.length)
      [] obj.cls = "Spinner" ->
           MainSpinner(obj.x, obj.y, obj.time, obj.type, obj.hit_sound,
                       obj.new_combo, obj.combo_to_skip, obj.end_time[1])

(* C21.  The two loaders differ only by the names of fields: after every   *)
(* hit object line either both have raised or neither has, and if neither  *)
(* has, the hit objects of the first are, under the field names of the     *)
(* second, the hit objects of the second, curve lists included.            *)
C21_LoadersDifferOnlyByNames ==
    (HitObjectLineRead /\ cur = NoCur) =>
        LET main == MainLoop(lines, Len(lines))
        IN  /\ (err = "None") <=> (main.err = "None")
            /\ err = "None" =>
                   /\ Len(HitObjects) = Len(main.beatmap.hit_objects)
                   /\ \A k \in 1..Len(HitObjects) :
                          Renamed(HitObjects[k]) = main.beatmap.hit_objects[k]

----------------------------------------------------------------------------
\* The last line read is a Bezier slider line, and it was decoded.
BezierSliderRead ==
    /\ HitObjectLineRead
    /\ err = "None"
    /\ object_type = "SLIDER"
    /\ Last(lines).params.shape = "slider"
    /\ Last(lines).params.curve_type = "B"

(* C22.  No curve of a Bezier slider is empty, and the points of its       *)
(* curves, one curve after the other, are the slider's position followed   *)
(* by the anchors of its line in their order: no point is dropped, added   *)
(* or moved.                                                               *)
C22_CurvesPartitionThePoints ==
    BezierSliderRead =>
        LET line == Last(lines)
            curves == Last(HitObjects).curves
        IN  /\ \A n \in 1..Len(curves) : curves[n].curve_points # <<>>
            /\ Concat(curves, Len(curves))
                   = << <<line.x, line.y>> >> \o line.params.curve_points

\* A Bezier slider was decoded whose three anchors are equal, the last
\* closing a curve that holds one point: the slider has three curves.
C22_Witness ==
    /\ BezierSliderRead
    /\ LET line == Last(lines)
           anchors == line.params.curve_points
           curves == Last(HitObjects).curves
       IN  /\ Len(anchors) = 3
           /\ anchors[1] = anchors[2] /\ anchors[2] = anchors[3]
           /\ anchors[1] # Sentinel
           /\ Len(curves) = 3
           /\ Len(curves[2].curve_points) = 1

----------------------------------------------------------------------------
(* C23.  A load of a well-formed file with at least one timing point       *)
(* returns a model, also when the file has exactly one timing point, with  *)
(* or without sliders; each slider at or after that single timing point is *)
(* bound to it.                                                            *)
C23_OneTimingPointSuffices ==
    (pc \in {"returned", "raised"} /\ Len(TimingPoints) >= 1) =>
        /\ pc = "returned"
        /\ Len(TimingPoints) = 1 =>
               \A k \in Sliders :
                   HitObjects[k].time >= TimingPoints[1].time
                       => Bound(k) = 1

----------------------------------------------------------------------------
\* The hit object lines that give a hit object: those of a circle, a slider
\* or a spinner.
HitObjectLinesKept ==
    SelectSeq(lines, LAMBDA l : /\ l.form = "ho"
                                /\ BitAnd(l.type_flag, 139) \in {HIT_CIRCLE, SLIDER, SPINNER})

\* A hit object without what the resolver gives a slider.
Unresolved(obj) ==
    IF obj.cls = "Slider"
    THEN [obj EXCEPT !.end_time = RInt(0), !.duration = RInt(0),
                     !.timing_point = NoTimingPoint]
    ELSE obj

\* A step of the resolver: of populate_timing_point_properties or of
\* populate_slider_properties, or the return.
ResolverStep ==
    /\ pc \in {"lines", "timing_points_done", "sliders"}
    /\ pc' \in {"timing_points_done", "sliders", "returned", "raised"}
    /\ lines' = lines

(* C24.  The resolver sorts copies only.  In the model returned,           *)
(* timing_points holds one record for each timing point line, in the order *)
(* of the lines, and hit_objects one record for each line of a circle, a   *)
(* slider or a spinner, in the order of the lines; and no step of the      *)
(* resolver changes the number or the order of the hit objects or a field  *)
(* of a hit object other than end_time, duration and timing_point of a     *)
(* slider.                                                                 *)
C24_ResolverKeepsFileOrder ==
    /\ [](pc = "returned" =>
            /\ Len(TimingPoints) = Len(TimingPointLinesRead)
            /\ \A j \in 1..Len(TimingPoints) :
                   /\ TimingPoints[j].time = TimingPointLinesRead[j].time
                   /\ TimingPoints[j].uninherited = TimingPointLinesRead[j].uninherited
            /\ Len(HitObjects) = Len(HitObjectLinesKept)
            /\ \A k \in 1..Len(HitObjects) :
                   /\ HitObjects[k].time = HitObjectLinesKept[k].time
                   /\ HitObjects[k].type
                          = HitObjectType(BitAnd(HitObjectLinesKept[k].type_flag, 139)))
    /\ [][ResolverStep =>
            /\ Len(HitObjects') = Len(HitObjects)
            /\ \A k \in 1..Len(HitObjects) :
                   Unresolved(HitObjects'[k]) = Unresolved(HitObjects[k])]_vars

\* A load returned on a file whose three timing points and whose circle,
\* slider, spinner and hold note are not in ascending time order; the
\* slider was resolved.
C24_Witness ==
    /\ pc = "returned"
    /\ Len(TimingPoints) = 3
    /\ ~InTimeOrder(<<1, 2, 3>>, TimingPoints)
    /\ Len(HitObjectLinesKept) = 3
    /\ HoldLine(1000) \in LinesRead
    /\ ~InTimeOrder(<<1, 2, 3>>, HitObjects)
    /\ \E k \in Sliders : ~RIsZero(HitObjects[k].duration)
    /\ \E k \in 1..3 : HitObjects[k].cls = "Spinner"
    /\ \E k \in 1..3 : HitObjects[k].cls = "HitCircle"

====
